---- MODULE Spec2Model ----
(***************************************************************************)
(* Model of app/services/trading_service.py (class TradingService): the    *)
(* mode-gated trading gateway.  One action per public method; the external *)
(* client (xttrader) is an opaque collaborator whose outcomes are chosen   *)
(* nondeterministically.  Exceptions are modelled by their message, split  *)
(* into the segments the code concatenates (prefix, then str(e)).          *)
(*                                                                         *)
(* Records keep the fields that decide a branch or identify the record;    *)
(* prices, volumes of a request and timestamps of an order are left out.   *)
(* datetime.now() is the variable now: it may stay the same between two    *)
(* calls, so two connects of one account can read the same timestamp.      *)
(* last and ext record what a caller observes of the latest call: what it  *)
(* returned or raised, and the calls it made on the external client.       *)
(* STOCK_SELL and LATEST_PRICE are the values of xtquant.xtconstant.       *)
(***************************************************************************)
EXTENDS Integers, Sequences, FiniteSets, TLC

(* ---------------- bounds of the model ---------------- *)
MaxTime == 1
MaxMockOrders == 2
MaxThreads == 2

(* ---------------- input domains ---------------- *)
Modes == {"MOCK", "DEV", "PROD"}
Accounts == {"U1"}
Times == 0..MaxTime
StockCodes == {"600000.SH", "BAD"}
Sides == {"BUY"}
OrderTypes == {"LIMIT"}
ExtOrderIds == {1}
StatusCodes == {0, 100} \cup (47..58)
Threads == 1..MaxThreads

(* f"session_{account_id}_{timestamp}" *)
SessionId(account_id, ts) == <<"session_", account_id, ts>>
SessionIds == {SessionId(a, t) : a \in Accounts, t \in Times}

(* f"mock_order_{counter}"; an id issued by the external client (an       *)
(* integer order number) is kept as the client returned it                 *)
MockOrderId(n) == <<"mock_order_", n>>
ExtOrderId(k) == <<"xt_", k>>
OrderIds == {MockOrderId(n) : n \in 1000..(1000 + MaxMockOrders)}
              \cup {ExtOrderId(k) : k \in ExtOrderIds \cup {0}}

(* validate_stock_code(request.stock_code) at line 335: a boolean          *)
(* predicate of a collaborator; "BAD" stands for a code that it rejects    *)
validate_stock_code(code) == code = "600000.SH"

(* ---------------- exception messages ---------------- *)
MsgNotConnected == "account not connected"
MsgInvalidCode == "invalid stock code"
MsgSubmitFailed == "submit order failed: "
MsgOrderNotExist == "order does not exist"
MsgCancelFailed == "cancel order failed: "
MsgXtError == "xt error"
MsgNotInstalled == "xtquant not installed"

VARIABLES
    settings,              \* settings.xtquant: mode and trading.allow_real_trading
    XTQUANT_AVAILABLE,     \* module-level flag set by the import at startup
    _initialized,
    _connected_accounts,   \* session id -> [account_info, connected_time]
    _orders,               \* order id -> OrderResponse
    _order_counter,
    now,                   \* datetime.now()
    last,                  \* the last call: operation and what it returned or raised
    ext,                   \* calls that the last call made on xttrader
    issued,                \* ids returned by mock submissions, in order
    expected,              \* client's view of its mock orders
    threads                \* concurrent submit_order calls: position and locals

vars == <<settings, XTQUANT_AVAILABLE, _initialized, _connected_accounts,
          _orders, _order_counter, now, last, ext, issued, expected, threads>>

NoErr == <<>>
Call(op, err, ret) ==
    [op |-> op, known |-> TRUE, ok |-> (err = NoErr), err |-> err, ret |-> ret]
(* a call that was given a session id: known tells whether that id was in *)
(* the session store when the call was made                               *)
CallOn(op, session_id, err, ret) ==
    [op |-> op, known |-> (session_id \in DOMAIN _connected_accounts),
     ok |-> (err = NoErr), err |-> err, ret |-> ret]
SubmitCall(session_id, request, err, ret) ==
    [request |-> request] @@ CallOn("submit_order", session_id, err, ret)
CancelCall(session_id, order_id, err, ret) ==
    [order_id |-> order_id] @@ CallOn("cancel_order", session_id, err, ret)
None == "None"
(* a thread of the request dispatcher that is not inside submit_order *)
Idle == [pc |-> "idle", request |-> None, order_id |-> None, counter |-> 0, ret |-> None]

(* ---------------- mode policy ---------------- *)
_should_use_real_trading_mode_only ==
    settings.mode = "PROD"

_should_use_real_trading ==
    settings.mode = "PROD" /\ settings.allow_real_trading

_should_use_real_data ==
    settings.mode \in {"DEV", "PROD"}

(* TradingService.__init__ with _try_initialize inlined *)
_try_initialize(available, mode) ==
    IF ~available THEN FALSE
    ELSE IF mode = "MOCK" THEN FALSE
    ELSE TRUE

Init ==
    /\ settings \in [mode : Modes, allow_real_trading : BOOLEAN]
    /\ XTQUANT_AVAILABLE \in BOOLEAN
    /\ _initialized = _try_initialize(XTQUANT_AVAILABLE, settings.mode)
    /\ _connected_accounts = <<>>
    /\ _orders = <<>>
    /\ _order_counter = 1000
    /\ now = 0
    /\ last = Call("init", NoErr, None)
    /\ ext = <<>>
    /\ issued = <<>>
    /\ expected = <<>>
    /\ threads = [t \in Threads |-> Idle]

(* ---------------- environment ---------------- *)
(* the clock advances between calls (it need not) *)
Tick ==
    /\ now < MaxTime
    /\ now' = now + 1
    /\ last' = Call("tick", NoErr, None)
    /\ ext' = <<>>
    /\ UNCHANGED <<settings, XTQUANT_AVAILABLE, _initialized, _connected_accounts,
                   _orders, _order_counter, issued, expected, threads>>

(* the settings object is shared and mutable: mode or flag is changed *)
SetConfig(m, a) ==
    /\ settings' = [mode |-> m, allow_real_trading |-> a]
    /\ settings' # settings
    /\ last' = Call("set_config", NoErr, None)
    /\ ext' = <<>>
    /\ UNCHANGED <<XTQUANT_AVAILABLE, _initialized, _connected_accounts,
                   _orders, _order_counter, now, issued, expected, threads>>

(* ---------------- session store ---------------- *)
AccountInfo(account_id) ==
    [account_id |-> account_id, account_type |-> "SECURITY", status |-> "CONNECTED"]

Put(f, k, v) == [x \in (DOMAIN f) \cup {k} |-> IF x = k THEN v ELSE f[x]]
Remove(f, k) == [x \in (DOMAIN f) \ {k} |-> f[x]]

connect_account(account_id) ==
    LET session_id == SessionId(account_id, now) IN
    /\ _connected_accounts' = Put(_connected_accounts, session_id,
            [account_info |-> AccountInfo(account_id), connected_time |-> now])
    /\ last' = Call("connect_account", NoErr,
            [success |-> TRUE, session_id |-> session_id,
             account_info |-> AccountInfo(account_id)])
    /\ ext' = <<>>
    /\ UNCHANGED <<settings, XTQUANT_AVAILABLE, _initialized, _orders,
                   _order_counter, now, issued, expected, threads>>

disconnect_accounts_same_account(accounts, session_id) ==
    IF session_id \in DOMAIN accounts
    THEN LET account_id == accounts[session_id].account_info.account_id
             kept == {t \in DOMAIN accounts : accounts[t].account_info.account_id # account_id}
         IN  [t \in kept |-> accounts[t]]
    ELSE accounts

disconnect_accounts(accounts, session_id) ==
    IF session_id \in DOMAIN accounts THEN Remove(accounts, session_id) ELSE accounts

disconnect_account_drop_orders(session_id) ==
    /\ _connected_accounts' = disconnect_accounts(_connected_accounts, session_id)
    /\ _orders' = IF session_id \in DOMAIN _connected_accounts THEN <<>> ELSE _orders
    /\ last' = [session_id |-> session_id] @@ CallOn("disconnect_account", session_id, NoErr,
                       session_id \in DOMAIN _connected_accounts)
    /\ ext' = <<>>
    /\ UNCHANGED <<settings, XTQUANT_AVAILABLE, _initialized,
                   _order_counter, now, issued, expected, threads>>

disconnect_account(session_id) ==
    /\ _connected_accounts' = disconnect_accounts(_connected_accounts, session_id)
    /\ last' = [session_id |-> session_id] @@ CallOn("disconnect_account", session_id, NoErr,
                       session_id \in DOMAIN _connected_accounts)
    /\ ext' = <<>>
    /\ UNCHANGED <<settings, XTQUANT_AVAILABLE, _initialized, _orders,
                   _order_counter, now, issued, expected, threads>>

is_connected_any_session(session_id) ==
    /\ last' = CallOn("is_connected", session_id, NoErr,
                    DOMAIN _connected_accounts # {})
    /\ ext' = <<>>
    /\ UNCHANGED <<settings, XTQUANT_AVAILABLE, _initialized, _connected_accounts,
                   _orders, _order_counter, now, issued, expected, threads>>

is_connected(session_id) ==
    /\ last' = CallOn("is_connected", session_id, NoErr,
                    session_id \in DOMAIN _connected_accounts)
    /\ ext' = <<>>
    /\ UNCHANGED <<settings, XTQUANT_AVAILABLE, _initialized, _connected_accounts,
                   _orders, _order_counter, now, issued, expected, threads>>

get_account_info(session_id) ==
    /\ last' = IF session_id \notin DOMAIN _connected_accounts
               THEN CallOn("get_account_info", session_id, <<MsgNotConnected>>, None)
               ELSE CallOn("get_account_info", session_id, NoErr,
                         _connected_accounts[session_id].account_info)
    /\ ext' = <<>>
    /\ UNCHANGED <<settings, XTQUANT_AVAILABLE, _initialized, _connected_accounts,
                   _orders, _order_counter, now, issued, expected, threads>>

(* ---------------- external client ---------------- *)
ExtCall(fn, out, value) == [fn |-> fn, out |-> out, value |-> value]

(* what a call on xttrader can do: raise, or return a value; the stand-in  *)
(* module installed when the import failed raises NotImplementedError.     *)
(* value is meaningful when out = "return"                                 *)
WriteOutcomes(values, unused) ==
    IF XTQUANT_AVAILABLE
    THEN {[out |-> "raise", value |-> unused]}
             \cup {[out |-> "return", value |-> v] : v \in values}
    ELSE {[out |-> "raise", value |-> unused]}

ExtMsg == IF XTQUANT_AVAILABLE THEN MsgXtError ELSE MsgNotInstalled

(* ---------------- order book and mutations ---------------- *)
Requests == [stock_code : StockCodes, side : Sides, order_type : OrderTypes]

OrderResponse(order_id, request) ==
    [order_id |-> order_id, stock_code |-> request.stock_code,
     side |-> request.side, order_type |-> request.order_type,
     status |-> "SUBMITTED"]

_get_mock_order_response_no_increment(counter, orders, request) ==
    LET order_id == MockOrderId(counter)
        order_response == OrderResponse(order_id, request)
    IN  [counter |-> counter,
         orders |-> Put(orders, order_id, order_response),
         response |-> order_response]

_get_mock_order_response(counter, orders, request) ==
    LET order_id == MockOrderId(counter)
        order_response == OrderResponse(order_id, request)
    IN  [counter |-> counter + 1,
         orders |-> Put(orders, order_id, order_response),
         response |-> order_response]

SubmitReal_record_first(orders, request, x) ==
    LET order_id == ExtOrderId(x.value)
        order_response == OrderResponse(order_id, request)
    IN  IF x.out = "raise"
        THEN [orders |-> Put(orders, order_id, order_response),
              err |-> <<MsgSubmitFailed, ExtMsg>>, response |-> None]
        ELSE [orders |-> Put(orders, order_id, order_response), err |-> NoErr,
              response |-> order_response]

(* lines 346-368: the order is built and stored after order_stock returned *)
SubmitReal(orders, request, x) ==
    IF x.out = "raise"
    THEN [orders |-> orders, err |-> <<MsgSubmitFailed, ExtMsg>>, response |-> None]
    ELSE LET order_id == ExtOrderId(x.value)
             order_response == OrderResponse(order_id, request)
         IN  [orders |-> Put(orders, order_id, order_response), err |-> NoErr,
              response |-> order_response]

submit_order(session_id, request) ==
    IF session_id \notin DOMAIN _connected_accounts
    THEN /\ last' = SubmitCall(session_id, request, <<MsgNotConnected>>, None)
         /\ ext' = <<>>
         /\ UNCHANGED <<settings, XTQUANT_AVAILABLE, _initialized, _connected_accounts,
                        _orders, _order_counter, now, issued, expected, threads>>
    ELSE IF ~validate_stock_code(request.stock_code)
    THEN /\ last' = SubmitCall(session_id, request, <<MsgSubmitFailed, MsgInvalidCode>>, None)
         /\ ext' = <<>>
         /\ UNCHANGED <<settings, XTQUANT_AVAILABLE, _initialized, _connected_accounts,
                        _orders, _order_counter, now, issued, expected, threads>>
    ELSE IF ~_should_use_real_trading
    THEN LET m == _get_mock_order_response(_order_counter, _orders, request) IN
         /\ _order_counter < 1000 + MaxMockOrders
         /\ _order_counter' = m.counter
         /\ _orders' = m.orders
         /\ last' = SubmitCall(session_id, request, NoErr, m.response)
         /\ ext' = <<>>
         /\ issued' = Append(issued, m.response.order_id)
         /\ expected' = Put(expected, m.response.order_id, m.response.status)
         /\ UNCHANGED <<settings, XTQUANT_AVAILABLE, _initialized,
                        _connected_accounts, now, threads>>
    ELSE \E x \in WriteOutcomes(ExtOrderIds, 0) :
         LET r == SubmitReal(_orders, request, x) IN
         /\ _orders' = r.orders
         /\ last' = SubmitCall(session_id, request, r.err, r.response)
         /\ ext' = <<ExtCall("order_stock", x.out, x.value)>>
         /\ UNCHANGED <<settings, XTQUANT_AVAILABLE, _initialized, _connected_accounts,
                        _order_counter, now, issued, expected, threads>>

mark_cancelled_noop(orders, order_id) == orders

(* lines 401-402 and 411-412: mark the stored order, if there is one *)
mark_cancelled(orders, order_id) ==
    IF order_id \in DOMAIN orders
    THEN [orders EXCEPT ![order_id].status = "CANCELLED"]
    ELSE orders

CancelReal_mark_always(orders, order_id, x) ==
    IF x.out = "raise"
    THEN [orders |-> orders, err |-> <<MsgCancelFailed, ExtMsg>>, ret |-> None]
    ELSE [orders |-> mark_cancelled(orders, order_id), err |-> NoErr, ret |-> x.value]

(* lines 406-415 *)
CancelReal(orders, order_id, x) ==
    IF x.out = "raise"
    THEN [orders |-> orders, err |-> <<MsgCancelFailed, ExtMsg>>, ret |-> None]
    ELSE [orders |-> IF x.value THEN mark_cancelled(orders, order_id) ELSE orders,
          err |-> NoErr, ret |-> x.value]

Acknowledge(view, order_id, ret) ==
    IF ret = TRUE /\ order_id \in DOMAIN view
    THEN [view EXCEPT ![order_id] = "CANCELLED"]
    ELSE view

cancel_order(session_id, order_id) ==
    IF session_id \notin DOMAIN _connected_accounts
    THEN /\ last' = CancelCall(session_id, order_id, <<MsgNotConnected>>, None)
         /\ ext' = <<>>
         /\ UNCHANGED <<settings, XTQUANT_AVAILABLE, _initialized, _connected_accounts,
                        _orders, _order_counter, now, issued, expected, threads>>
    ELSE IF ~_should_use_real_trading
    THEN /\ _orders' = mark_cancelled(_orders, order_id)
         /\ last' = CancelCall(session_id, order_id, NoErr, TRUE)
         /\ ext' = <<>>
         /\ expected' = Acknowledge(expected, order_id, TRUE)
         /\ UNCHANGED <<settings, XTQUANT_AVAILABLE, _initialized, _connected_accounts,
                        _order_counter, now, issued, threads>>
    ELSE IF order_id \notin DOMAIN _orders
    THEN /\ last' = CancelCall(session_id, order_id, <<MsgCancelFailed, MsgOrderNotExist>>, None)
         /\ ext' = <<>>
         /\ UNCHANGED <<settings, XTQUANT_AVAILABLE, _initialized, _connected_accounts,
                        _orders, _order_counter, now, issued, expected, threads>>
    ELSE \E x \in WriteOutcomes(BOOLEAN, FALSE) :
         LET r == CancelReal(_orders, order_id, x) IN
         /\ _orders' = r.orders
         /\ last' = CancelCall(session_id, order_id, r.err, r.ret)
         /\ ext' = <<ExtCall("cancel_order_stock", x.out, x.value)>>
         /\ expected' = IF r.err = NoErr THEN Acknowledge(expected, order_id, r.ret)
                        ELSE expected
         /\ UNCHANGED <<settings, XTQUANT_AVAILABLE, _initialized, _connected_accounts,
                        _order_counter, now, issued, threads>>


(* ---------------- record translator ---------------- *)
(* an external record is a record whose attributes may be missing; reading *)
(* a missing attribute raises AttributeError, getattr(.., default) does not *)
HasAttrs(rec, attrs) == attrs \subseteq DOMAIN rec

PositionAttrs == {"stock_code", "volume", "can_use_volume"}
_convert_xt_position(xt_pos) ==
    [stock_code |-> xt_pos.stock_code,
     stock_name |-> IF "instrument_name" \in DOMAIN xt_pos
                    THEN xt_pos.instrument_name ELSE "",
     volume |-> xt_pos.volume,
     available_volume |-> xt_pos.can_use_volume]

STOCK_SELL == 24
LATEST_PRICE == 5

status_map_partsucc_cancelled(order_status) ==
    CASE order_status = 48 -> "PENDING"
      [] order_status = 49 -> "PENDING"
      [] order_status = 50 -> "SUBMITTED"
      [] order_status = 51 -> "SUBMITTED"
      [] order_status = 52 -> "CANCELLED"
      [] order_status = 53 -> "CANCELLED"
      [] order_status = 54 -> "CANCELLED"
      [] order_status = 55 -> "PARTIAL_FILLED"
      [] order_status = 56 -> "FILLED"
      [] order_status = 57 -> "REJECTED"
      [] OTHER -> "PENDING"

status_map(order_status) ==
    CASE order_status = 48 -> "PENDING"
      [] order_status = 49 -> "PENDING"
      [] order_status = 50 -> "SUBMITTED"
      [] order_status = 51 -> "SUBMITTED"
      [] order_status = 52 -> "PARTIAL_FILLED"
      [] order_status = 53 -> "CANCELLED"
      [] order_status = 54 -> "CANCELLED"
      [] order_status = 55 -> "PARTIAL_FILLED"
      [] order_status = 56 -> "FILLED"
      [] order_status = 57 -> "REJECTED"
      [] OTHER -> "PENDING"

OrderAttrs == {"order_id", "stock_code", "order_type", "price_type", "order_status"}
_convert_xt_order(xt_order) ==
    [order_id |-> ExtOrderId(xt_order.order_id),
     stock_code |-> xt_order.stock_code,
     side |-> IF xt_order.order_type = STOCK_SELL THEN "SELL"
              ELSE IF xt_order.order_type \in {24, 25} THEN "SELL"
              ELSE "BUY",
     order_type |-> IF xt_order.price_type = LATEST_PRICE THEN "MARKET" ELSE "LIMIT",
     status |-> status_map(xt_order.order_status)]

TradeAttrs == {"traded_id", "order_id", "stock_code", "order_type", "traded_volume"}
_convert_xt_trade(xt_trade) ==
    [trade_id |-> xt_trade.traded_id,
     order_id |-> ExtOrderId(xt_trade.order_id),
     stock_code |-> xt_trade.stock_code,
     side |-> IF xt_trade.order_type = STOCK_SELL THEN "SELL"
              ELSE IF xt_trade.order_type \in {24, 25} THEN "SELL"
              ELSE "BUY",
     volume |-> xt_trade.traded_volume,
     commission |-> IF "commission" \in DOMAIN xt_trade THEN xt_trade.commission ELSE 0]

AssetAttrs == {"total_asset", "market_value", "cash", "frozen_cash"}
ConvertAsset(asset) ==
    [total_asset |-> asset.total_asset, market_value |-> asset.market_value,
     cash |-> asset.cash, frozen_cash |-> asset.frozen_cash,
     available_cash |-> asset.cash, profit_loss |-> 0]

(* ---------------- what the external queries can return ---------------- *)
XtPositionLists ==
    { <<>>,
      << [stock_code |-> "600000.SH", volume |-> 100, can_use_volume |-> 100,
          instrument_name |-> "SPDB"] >>,
      << [stock_code |-> "600000.SH", volume |-> 100, can_use_volume |-> 0] >>,
      << [stock_code |-> "600000.SH"] >> }

XtOrderLists ==
    { <<>>,
      << [order_id |-> 1, stock_code |-> "600000.SH", order_type |-> 23,
          price_type |-> 11, order_status |-> 50] >>,
      << [order_id |-> 1, stock_code |-> "600000.SH", order_type |-> 24,
          price_type |-> 5, order_status |-> 56] >>,
      << [order_id |-> 1] >> }

XtTradeLists ==
    { <<>>,
      << [traded_id |-> "T1", order_id |-> 1, stock_code |-> "600000.SH",
          order_type |-> 23, traded_volume |-> 100] >>,
      << [traded_id |-> "T1"] >> }

XtAssets ==
    { << [total_asset |-> 500, market_value |-> 200, cash |-> 300, frozen_cash |-> 0] >>,
      << [total_asset |-> 500] >> }

(* raise, return None, or return data *)
QueryOutcomes(datasets) ==
    {[out |-> o, data |-> <<>>] : o \in {"raise", "null"}}
        \cup {[out |-> "data", data |-> d] : d \in datasets}

Range(seq) == {seq[i] : i \in 1..Len(seq)}
Convertible(data, attrs) == \A i \in 1..Len(data) : HasAttrs(data[i], attrs)

(* ---------------- simulated data ---------------- *)
mock_positions ==
    << [stock_code |-> "000001.SZ", stock_name |-> "PAB", volume |-> 10000,
        available_volume |-> 10000],
       [stock_code |-> "000002.SZ", stock_name |-> "VANKE", volume |-> 5000,
        available_volume |-> 5000] >>

mock_trades ==
    << [trade_id |-> "trade_001", order_id |-> "order_1001", stock_code |-> "000001.SZ",
        side |-> "BUY", volume |-> 1000, commission |-> 13] >>

mock_asset ==
    [total_asset |-> 1800000, market_value |-> 800000, cash |-> 950000,
     frozen_cash |-> 50000, available_cash |-> 900000, profit_loss |-> 50000]

mock_risk ==
    [position_ratio |-> 44, cash_ratio |-> 56, max_drawdown |-> 5]

mock_strategies ==
    << [strategy_name |-> "MA", status |-> "RUNNING"],
       [strategy_name |-> "MeanReversion", status |-> "STOPPED"] >>

(* ---------------- queries ---------------- *)
_get_stock_account(session_id, built) ==
    IF ~XTQUANT_AVAILABLE THEN None
    ELSE IF built THEN _connected_accounts[session_id].account_info.account_id
    ELSE None

(* lines 108-115: what _get_stock_account did on xtquant when it returned  *)
(* None: nothing without the library, else StockAccount(...) raised        *)
NoAccount ==
    IF ~XTQUANT_AVAILABLE THEN <<>>
    ELSE <<ExtCall("StockAccount", "raise", <<>>)>>

ReadFrame ==
    UNCHANGED <<settings, XTQUANT_AVAILABLE, _initialized, _connected_accounts,
                _orders, _order_counter, now, issued, expected, threads>>

PositionsResult_propagate(x) ==
    IF x.out = "data" /\ Convertible(x.data, PositionAttrs)
    THEN [r |-> [i \in 1..Len(x.data) |-> _convert_xt_position(x.data[i])], err |-> NoErr]
    ELSE IF x.out = "null" THEN [r |-> <<>>, err |-> NoErr]
    ELSE IF x.out = "raise" THEN [r |-> None, err |-> <<MsgXtError>>]
    ELSE [r |-> mock_positions, err |-> NoErr]

(* lines 289-297: the value get_positions returns once the query was made *)
PositionsResult(x) ==
    IF x.out = "data" /\ Convertible(x.data, PositionAttrs)
    THEN [r |-> [i \in 1..Len(x.data) |-> _convert_xt_position(x.data[i])], err |-> NoErr]
    ELSE IF x.out = "null" THEN [r |-> <<>>, err |-> NoErr]
    ELSE [r |-> mock_positions, err |-> NoErr]

get_positions(session_id) ==
    /\ ReadFrame
    /\ IF session_id \notin DOMAIN _connected_accounts
       THEN last' = CallOn("get_positions", session_id, <<MsgNotConnected>>, None) /\ ext' = <<>>
       ELSE IF _should_use_real_data /\ _initialized
       THEN \E built \in BOOLEAN :
              IF _get_stock_account(session_id, built) = None
              THEN last' = CallOn("get_positions", session_id, NoErr, mock_positions) /\ ext' = NoAccount
              ELSE \E x \in QueryOutcomes(XtPositionLists) :
                     /\ last' = CallOn("get_positions", session_id, PositionsResult(x).err,
                                     PositionsResult(x).r)
                     /\ ext' = <<ExtCall("query_stock_positions", x.out, x.data)>>
       ELSE last' = CallOn("get_positions", session_id, NoErr, mock_positions) /\ ext' = <<>>

OrderBookList_open_only(orders) ==
    {orders[k] : k \in {j \in DOMAIN orders : orders[j].status # "CANCELLED"}}

OrderBookList(orders) == {orders[k] : k \in DOMAIN orders}

OrdersResult_null_empty(x, orders) ==
    IF x.out = "data" /\ Convertible(x.data, OrderAttrs)
    THEN [r |-> {_convert_xt_order(o) : o \in Range(x.data)}, err |-> NoErr]
    ELSE IF x.out = "null" THEN [r |-> {}, err |-> NoErr]
    ELSE [r |-> OrderBookList(orders), err |-> NoErr]

(* lines 427-434; the list is modelled by the set of its elements *)
OrdersResult(x, orders) ==
    IF x.out = "data" /\ Convertible(x.data, OrderAttrs)
    THEN [r |-> {_convert_xt_order(o) : o \in Range(x.data)}, err |-> NoErr]
    ELSE [r |-> OrderBookList(orders), err |-> NoErr]

get_orders_unguarded(session_id) ==
    /\ ReadFrame
    /\ IF session_id \notin DOMAIN _connected_accounts
       THEN last' = CallOn("get_orders", session_id, <<MsgNotConnected>>, None) /\ ext' = <<>>
       ELSE IF _should_use_real_data
       THEN \E x \in QueryOutcomes(XtOrderLists) :
              /\ last' = CallOn("get_orders", session_id, OrdersResult(x, _orders).err,
                              OrdersResult(x, _orders).r)
              /\ ext' = <<ExtCall("query_stock_orders", x.out, x.data)>>
       ELSE last' = CallOn("get_orders", session_id, NoErr, OrderBookList(_orders)) /\ ext' = <<>>

get_orders(session_id) ==
    /\ ReadFrame
    /\ IF session_id \notin DOMAIN _connected_accounts
       THEN last' = CallOn("get_orders", session_id, <<MsgNotConnected>>, None) /\ ext' = <<>>
       ELSE IF _should_use_real_data /\ _initialized
       THEN \E built \in BOOLEAN :
              IF _get_stock_account(session_id, built) = None
              THEN last' = CallOn("get_orders", session_id, NoErr, OrderBookList(_orders)) /\ ext' = NoAccount
              ELSE \E x \in QueryOutcomes(XtOrderLists) :
                     /\ last' = CallOn("get_orders", session_id, OrdersResult(x, _orders).err,
                                     OrdersResult(x, _orders).r)
                     /\ ext' = <<ExtCall("query_stock_orders", x.out, x.data)>>
       ELSE last' = CallOn("get_orders", session_id, NoErr, OrderBookList(_orders)) /\ ext' = <<>>

(* lines 449-457 *)
TradesResult(x) ==
    IF x.out = "data" /\ Convertible(x.data, TradeAttrs)
    THEN [r |-> [i \in 1..Len(x.data) |-> _convert_xt_trade(x.data[i])], err |-> NoErr]
    ELSE IF x.out = "null" THEN [r |-> <<>>, err |-> NoErr]
    ELSE [r |-> mock_trades, err |-> NoErr]

get_trades(session_id) ==
    /\ ReadFrame
    /\ IF session_id \notin DOMAIN _connected_accounts
       THEN last' = CallOn("get_trades", session_id, <<MsgNotConnected>>, None) /\ ext' = <<>>
       ELSE IF _should_use_real_data /\ _initialized
       THEN \E built \in BOOLEAN :
              IF _get_stock_account(session_id, built) = None
              THEN last' = CallOn("get_trades", session_id, NoErr, mock_trades) /\ ext' = NoAccount
              ELSE \E x \in QueryOutcomes(XtTradeLists) :
                     /\ last' = CallOn("get_trades", session_id, TradesResult(x).err, TradesResult(x).r)
                     /\ ext' = <<ExtCall("query_stock_trades", x.out, x.data)>>
       ELSE last' = CallOn("get_trades", session_id, NoErr, mock_trades) /\ ext' = <<>>

(* lines 486-502 *)
AssetResult(x) ==
    IF x.out = "data" /\ Convertible(x.data, AssetAttrs)
    THEN [r |-> ConvertAsset(x.data[1]), err |-> NoErr]
    ELSE [r |-> mock_asset, err |-> NoErr]

get_asset_info(session_id) ==
    /\ ReadFrame
    /\ IF session_id \notin DOMAIN _connected_accounts
       THEN last' = CallOn("get_asset_info", session_id, <<MsgNotConnected>>, None) /\ ext' = <<>>
       ELSE IF _should_use_real_data /\ _initialized
       THEN \E built \in BOOLEAN :
              IF _get_stock_account(session_id, built) = None
              THEN last' = CallOn("get_asset_info", session_id, NoErr, mock_asset) /\ ext' = NoAccount
              ELSE \E x \in QueryOutcomes(XtAssets) :
                     /\ last' = CallOn("get_asset_info", session_id, AssetResult(x).err, AssetResult(x).r)
                     /\ ext' = <<ExtCall("query_stock_asset", x.out, x.data)>>
       ELSE last' = CallOn("get_asset_info", session_id, NoErr, mock_asset) /\ ext' = <<>>

get_risk_info(session_id) ==
    /\ ReadFrame
    /\ ext' = <<>>
    /\ last' = IF session_id \notin DOMAIN _connected_accounts
               THEN CallOn("get_risk_info", session_id, <<MsgNotConnected>>, None)
               ELSE CallOn("get_risk_info", session_id, NoErr, mock_risk)

get_strategies_unchecked(session_id) ==
    /\ ReadFrame
    /\ ext' = <<>>
    /\ last' = CallOn("get_strategies", session_id, NoErr, mock_strategies)

get_strategies(session_id) ==
    /\ ReadFrame
    /\ ext' = <<>>
    /\ last' = IF session_id \notin DOMAIN _connected_accounts
               THEN CallOn("get_strategies", session_id, <<MsgNotConnected>>, None)
               ELSE CallOn("get_strategies", session_id, NoErr, mock_strategies)

Next ==
    \/ Tick
    \/ \E m \in Modes, a \in BOOLEAN : SetConfig(m, a)
    \/ \E account_id \in Accounts : connect_account(account_id)
    \/ \E s \in SessionIds : disconnect_account(s)
    \/ \E s \in SessionIds : is_connected(s)
    \/ \E s \in SessionIds : get_account_info(s)
    \/ \E s \in SessionIds, request \in Requests : submit_order(s, request)
    \/ \E s \in SessionIds, order_id \in OrderIds : cancel_order(s, order_id)
    \/ \E s \in SessionIds : get_positions(s)
    \/ \E s \in SessionIds : get_orders(s)
    \/ \E s \in SessionIds : get_trades(s)
    \/ \E s \in SessionIds : get_asset_info(s)
    \/ \E s \in SessionIds : get_risk_info(s)
    \/ \E s \in SessionIds : get_strategies(s)

Spec == Init /\ [][Next]_vars

(* ---------------- the order-record translator on its own ---------------- *)
(* XtOrder records a query can deliver, over every status code of interest *)
XtOrders ==
    [order_id : ExtOrderIds, stock_code : {"600000.SH"}, order_type : {23, 24},
     price_type : {5, 11}, order_status : StatusCodes]

(* one application of _convert_xt_order to a record the client delivered *)
TranslateOrder(xt_order) ==
    /\ ext' = <<ExtCall("query_stock_orders", "data", <<xt_order>>)>>
    /\ last' = Call("_convert_xt_order", NoErr, _convert_xt_order(xt_order))
    /\ UNCHANGED <<settings, XTQUANT_AVAILABLE, _initialized, _connected_accounts,
                   _orders, _order_counter, now, issued, expected, threads>>

NextTranslate == \E xt_order \in XtOrders : TranslateOrder(xt_order)

SpecTranslate == Init /\ [][NextTranslate]_vars

(* ---------------- submit_order under a concurrent dispatcher ---------------- *)
(* The service holds no lock, so the statements of two submit_order calls   *)
(* running on different threads interleave; a thread can be switched out    *)
(* between any two of the steps below (between two bytecodes in CPython).   *)
Frame ==
    UNCHANGED <<settings, XTQUANT_AVAILABLE, _initialized, _connected_accounts,
                now, last, issued, expected>>

(* lines 331-341: the session check, the code check and the mode check *)
Begin(t, session_id, request) ==
    /\ threads[t].pc = "idle"
    /\ threads' = [threads EXCEPT ![t] =
          [@ EXCEPT !.request = request,
                    !.pc = IF session_id \notin DOMAIN _connected_accounts THEN "raised"
                           ELSE IF ~validate_stock_code(request.stock_code) THEN "raised"
                           ELSE IF ~_should_use_real_trading THEN "make_id"
                           ELSE "order_stock"]]
    /\ Frame /\ UNCHANGED <<_orders, _order_counter, ext>>

(* line 375: order_id = f"mock_order_{self._order_counter}" *)
MakeId(t) ==
    /\ threads[t].pc = "make_id"
    /\ threads' = [threads EXCEPT ![t] =
          [@ EXCEPT !.order_id = MockOrderId(_order_counter), !.pc = "load_counter"]]
    /\ Frame /\ UNCHANGED <<_orders, _order_counter, ext>>

(* line 376, first half: self._order_counter is read for the += *)
LoadCounter(t) ==
    /\ threads[t].pc = "load_counter"
    /\ threads' = [threads EXCEPT ![t] =
          [@ EXCEPT !.counter = _order_counter, !.pc = "store_counter"]]
    /\ Frame /\ UNCHANGED <<_orders, _order_counter, ext>>

(* line 376, second half: the incremented value is written back *)
StoreCounter(t) ==
    /\ threads[t].pc = "store_counter"
    /\ _order_counter' = threads[t].counter + 1
    /\ threads' = [threads EXCEPT ![t] = [@ EXCEPT !.pc = "store_order"]]
    /\ Frame /\ UNCHANGED <<_orders, ext>>

(* lines 378-390: the response is built, stored under the id and returned *)
StoreOrder(t) ==
    /\ threads[t].pc = "store_order"
    /\ LET order_response == OrderResponse(threads[t].order_id, threads[t].request) IN
         /\ _orders' = Put(_orders, threads[t].order_id, order_response)
         /\ threads' = [threads EXCEPT ![t] =
               [@ EXCEPT !.ret = order_response, !.pc = "returned_mock"]]
    /\ Frame /\ UNCHANGED <<_order_counter, ext>>

(* lines 346-368: the real path, taken when real trading is permitted *)
OrderStock(t) ==
    /\ threads[t].pc = "order_stock"
    /\ \E x \in WriteOutcomes(ExtOrderIds, 0) :
         LET r == SubmitReal(_orders, threads[t].request, x) IN
         /\ _orders' = r.orders
         /\ ext' = <<ExtCall("order_stock", x.out, x.value)>>
         /\ threads' = [threads EXCEPT ![t] =
               [@ EXCEPT !.ret = r.response,
                         !.pc = IF r.err = NoErr THEN "returned_real" ELSE "raised"]]
    /\ Frame /\ UNCHANGED _order_counter

NextConcurrent ==
    \/ \E account_id \in Accounts : connect_account(account_id)
    \/ \E t \in Threads, s \in SessionIds, request \in Requests : Begin(t, s, request)
    \/ \E t \in Threads : MakeId(t)
    \/ \E t \in Threads : LoadCounter(t)
    \/ \E t \in Threads : StoreCounter(t)
    \/ \E t \in Threads : StoreOrder(t)
    \/ \E t \in Threads : OrderStock(t)

SpecConcurrent == Init /\ [][NextConcurrent]_vars

(* ======================= properties ======================= *)
(* permits_real_trading() of the mode policy, read off the configuration *)
PermitsRealTrading == settings.mode = "PROD" /\ settings.allow_real_trading = TRUE

(* the error taxonomy, by the message the exception starts with *)
ErrorKind(err) ==
    IF err = NoErr THEN "none"
    ELSE CASE err[1] = MsgNotConnected -> "NotConnected"
           [] err[1] = MsgInvalidCode -> "InvalidInstrument"
           [] err[1] = MsgOrderNotExist -> "OrderNotFound"
           [] err[1] \in {MsgSubmitFailed, MsgCancelFailed} -> "OrderFailed"
           [] OTHER -> "Other"

Mutations == {"order_stock", "cancel_order_stock"}
ExtFns(calls) == {calls[i].fn : i \in 1..Len(calls)}
Connected(s) == s \in DOMAIN _connected_accounts

(* C1: xttrader.order_stock and xttrader.cancel_order_stock are called only *)
(* by a submit_order / cancel_order call made while mode = PROD and the     *)
(* allow-real-trading flag is set; in every other configuration a           *)
(* successful submit_order made no external call and returned a mock id.    *)
C1_RealTradingGate ==
    /\ (ExtFns(ext) \cap Mutations # {}) =>
           /\ PermitsRealTrading
           /\ last.op \in {"submit_order", "cancel_order"}
           /\ last.op = "submit_order" => ExtFns(ext) = {"order_stock"}
           /\ last.op = "cancel_order" => ExtFns(ext) = {"cancel_order_stock"}
    /\ (last.op = "submit_order" /\ last.ok /\ ~PermitsRealTrading) =>
           /\ ext = <<>>
           /\ last.ret.order_id[1] = "mock_order_"

C1_Witness ==
    /\ last.op = "submit_order" /\ last.ok
    /\ settings.mode = "PROD" /\ ~settings.allow_real_trading
    /\ ext = <<>>
    /\ XTQUANT_AVAILABLE

(* C2: the ids returned by mock submissions are mock_order_1000,            *)
(* mock_order_1001, ... in the order of the calls: the first is 1000 and    *)
(* each later suffix is greater than every earlier one; the order returned  *)
(* has status SUBMITTED.                                                    *)
C2_MockIdsIncrease ==
    /\ \A i \in 1..Len(issued) : issued[i] = MockOrderId(1000 + i - 1)
    /\ \A i, j \in 1..Len(issued) : i < j => issued[i][2] < issued[j][2]
    /\ (last.op = "submit_order" /\ last.ok /\ ext = <<>>) =>
           /\ last.ret.status = "SUBMITTED"
           /\ Len(issued) >= 1
           /\ last.ret.order_id = issued[Len(issued)]

C2_Witness ==
    /\ Len(issued) = 2
    /\ last.op = "submit_order" /\ last.ok /\ ext = <<>>
    /\ Cardinality(DOMAIN _connected_accounts) = 2

(* C3: on a connected session, while real trading is not permitted,         *)
(* cancel_order returns true for every order id without an external call;   *)
(* a stored order becomes CANCELLED (the others are untouched), and for an  *)
(* id that is not stored the order book is unchanged.                       *)
C3_Step ==
    (last'.op = "cancel_order" /\ last'.known /\ ~PermitsRealTrading) =>
        /\ last'.ok /\ last'.ret = TRUE
        /\ ext' = <<>>
        /\ DOMAIN _orders' = DOMAIN _orders
        /\ \A k \in DOMAIN _orders :
              _orders'[k] = IF k = last'.order_id
                            THEN [_orders[k] EXCEPT !.status = "CANCELLED"]
                            ELSE _orders[k]

C3_MockCancel == [][C3_Step]_vars

C3_Witness ==
    /\ last.op = "cancel_order" /\ last.known /\ last.ok /\ ext = <<>>
    /\ ~PermitsRealTrading
    /\ \E k \in DOMAIN _orders : _orders[k].status = "CANCELLED"
    /\ \E k \in DOMAIN _orders : _orders[k].status = "SUBMITTED"

(* C4: a get_orders that answers from the order book (real data disabled,   *)
(* or the external query raised or returned None) lists every order that a  *)
(* mock submit_order returned: with status SUBMITTED until a cancel_order   *)
(* for that id has returned true, with status CANCELLED from then on.       *)
Degraded == ext = <<>> \/ ext[1].out \in {"raise", "null"}

C4_RoundTrip ==
    (last.op = "get_orders" /\ last.ok /\ Degraded) =>
        \A id \in DOMAIN expected :
            \E o \in last.ret : o.order_id = id /\ o.status = expected[id]

C4_Witness ==
    /\ last.op = "get_orders" /\ last.ok /\ Degraded
    /\ \E id \in DOMAIN expected : expected[id] = "CANCELLED"
    /\ \E id \in DOMAIN expected : expected[id] = "SUBMITTED"

(* C5: with a session id that is not in the session store, each of the nine *)
(* operations fails with NotConnected, makes no external call, and leaves   *)
(* the session store, the order book and the mock-id counter unchanged.     *)
SessionOps ==
    {"submit_order", "cancel_order", "get_account_info", "get_positions", "get_orders",
     "get_trades", "get_asset_info", "get_risk_info", "get_strategies"}

C5_Step ==
    (last'.op \in SessionOps /\ ~last'.known) =>
        /\ ErrorKind(last'.err) = "NotConnected"
        /\ ext' = <<>>
        /\ UNCHANGED <<_connected_accounts, _orders, _order_counter>>

C5_NotConnected == [][C5_Step]_vars

C5_Witness ==
    /\ last.op = "submit_order" /\ ~last.known
    /\ ErrorKind(last.err) = "NotConnected"
    /\ PermitsRealTrading
    /\ _connected_accounts # <<>>
    /\ _orders # <<>>

(* C6: on a connected session get_positions, get_orders, get_trades and     *)
(* get_asset_info never fail, whatever the external query does (raises,     *)
(* returns None, returns records that cannot be translated), also when the  *)
(* account handle cannot be built or the client is unavailable.             *)
DegradingReads == {"get_positions", "get_orders", "get_trades", "get_asset_info"}

C6_ReadsNeverFail ==
    (last.op \in DegradingReads /\ last.known) => (last.ok /\ last.err = NoErr)

C6_Witness ==
    /\ last.op = "get_positions" /\ last.known /\ last.ok
    /\ ext # <<>>
    /\ ext[1].fn = "query_stock_positions" /\ ext[1].out = "raise"
    /\ last.ret = mock_positions

(* C7: while real trading is permitted, a submit_order whose external       *)
(* submission raises (the unavailable client raises too) fails with         *)
(* OrderFailed and leaves the order book and the mock-id counter as they    *)
(* were; the order book changes only when order_stock returned an id, and   *)
(* then by storing the returned order, status SUBMITTED, under that id.     *)
C7_Step ==
    (last'.op = "submit_order" /\ last'.known /\ PermitsRealTrading) =>
        /\ (ext' # <<>> /\ ext'[1].out = "raise") =>
               /\ ErrorKind(last'.err) = "OrderFailed"
               /\ UNCHANGED <<_orders, _order_counter>>
        /\ (~XTQUANT_AVAILABLE /\ last'.request.stock_code = "600000.SH") =>
               ErrorKind(last'.err) = "OrderFailed"
        /\ (_orders' # _orders) =>
               /\ ext' # <<>>
               /\ ext'[1].fn = "order_stock" /\ ext'[1].out = "return"
               /\ last'.ok
               /\ last'.ret.order_id = ExtOrderId(ext'[1].value)
               /\ last'.ret.status = "SUBMITTED"
               /\ DOMAIN _orders' = DOMAIN _orders \cup {last'.ret.order_id}
               /\ \A k \in DOMAIN _orders' :
                     _orders'[k] = IF k = last'.ret.order_id THEN last'.ret ELSE _orders[k]

C7_RealSubmitFailure == [][C7_Step]_vars

C7_Witness ==
    /\ last.op = "submit_order" /\ last.known /\ ~last.ok
    /\ PermitsRealTrading
    /\ ext # <<>>
    /\ ext[1].fn = "order_stock" /\ ext[1].out = "raise"
    /\ _orders # <<>>
    /\ _order_counter > 1000

(* C8: while real trading is permitted, cancel_order for an id that is not  *)
(* in the order book fails with OrderNotFound, an outcome other than        *)
(* OrderFailed, without an external call and without changing the book.     *)
C8_Step ==
    (/\ last'.op = "cancel_order" /\ last'.known
     /\ PermitsRealTrading
     /\ last'.order_id \notin DOMAIN _orders) =>
        /\ ErrorKind(last'.err) = "OrderNotFound"
        /\ ext' = <<>>
        /\ UNCHANGED _orders

C8_OrderNotFound == [][C8_Step]_vars

(* what the code does in the case of C8: the failure is raised as           *)
(* "cancel order failed: order does not exist", the form of OrderFailed      *)
C8_Observed ==
    [][(/\ last'.op = "cancel_order" /\ last'.known
        /\ PermitsRealTrading
        /\ last'.order_id \notin DOMAIN _orders) =>
           /\ last'.err = <<MsgCancelFailed, MsgOrderNotExist>>
           /\ ext' = <<>>
           /\ UNCHANGED _orders]_vars

(* C9: on a connected session, submit_order with a code that the validity   *)
(* predicate rejects fails with InvalidInstrument, an outcome other than    *)
(* OrderFailed, in every mode, with no external call and with the order     *)
(* book and the mock-id counter unchanged.                                  *)
C9_Step ==
    (/\ last'.op = "submit_order" /\ last'.known
     /\ ~validate_stock_code(last'.request.stock_code)) =>
        /\ ErrorKind(last'.err) = "InvalidInstrument"
        /\ ext' = <<>>
        /\ UNCHANGED <<_orders, _order_counter>>

C9_InvalidInstrument == [][C9_Step]_vars

(* what the code does in the case of C9: the failure is raised as           *)
(* "submit order failed: invalid stock code", the form of OrderFailed        *)
C9_Observed ==
    [][(/\ last'.op = "submit_order" /\ last'.known
        /\ ~validate_stock_code(last'.request.stock_code)) =>
           /\ last'.err = <<MsgSubmitFailed, MsgInvalidCode>>
           /\ ext' = <<>>
           /\ UNCHANGED <<_orders, _order_counter>>]_vars

(* C10: disconnect_account(s) returns true exactly when s was in the        *)
(* session store and then removes s and only s (every other session and its *)
(* stored record are unchanged); it returns false and changes nothing       *)
(* otherwise, never raising.  A session id that is not in the store stays   *)
(* out of it under every operation except a connect_account that returns    *)
(* that very id, so after a true return is_connected(s) is false and no     *)
(* operation on another session makes it true again.                        *)
C10_DisconnectStep ==
    (last'.op = "disconnect_account") =>
        /\ last'.ok
        /\ last'.ret = (last'.session_id \in DOMAIN _connected_accounts)
        /\ DOMAIN _connected_accounts' = DOMAIN _connected_accounts \ {last'.session_id}
        /\ \A t \in DOMAIN _connected_accounts' :
              _connected_accounts'[t] = _connected_accounts[t]

C10_StaysDisconnected ==
    \A s \in SessionIds :
        (/\ s \notin DOMAIN _connected_accounts
         /\ ~(last'.op = "connect_account" /\ last'.ret.session_id = s)) =>
            s \notin DOMAIN _connected_accounts'

C10_OthersKept ==
    \A t \in DOMAIN _connected_accounts :
        (/\ last'.op # "connect_account"
         /\ ~(last'.op = "disconnect_account" /\ last'.session_id = t)) =>
            /\ t \in DOMAIN _connected_accounts'
            /\ _connected_accounts'[t] = _connected_accounts[t]

C10_Disconnect ==
    [][C10_DisconnectStep /\ C10_StaysDisconnected /\ C10_OthersKept]_vars

C10_Witness ==
    /\ last.op = "disconnect_account" /\ last.ret = TRUE
    /\ last.session_id \notin DOMAIN _connected_accounts
    /\ _connected_accounts # <<>>

(* C11: every successful connect_account returns a session id that is not *)
(* in the session store yet (so none issued earlier and still connected),   *)
(* overwrites no session, and makes the store grow by exactly one           *)
C11_Step ==
    (last'.op = "connect_account" /\ last'.ok) =>
        /\ last'.ret.session_id \notin DOMAIN _connected_accounts
        /\ \A s \in DOMAIN _connected_accounts :
              /\ s \in DOMAIN _connected_accounts'
              /\ _connected_accounts'[s] = _connected_accounts[s]
        /\ Cardinality(DOMAIN _connected_accounts') =
              Cardinality(DOMAIN _connected_accounts) + 1
C11_FreshSessionId == [][C11_Step]_vars

(* the status table as the contract states it, by ranges of codes *)
CanonicalStatus(code) ==
    IF code \in {48, 49} THEN "PENDING"
    ELSE IF code \in {50, 51} THEN "SUBMITTED"
    ELSE IF code \in {52, 55} THEN "PARTIAL_FILLED"
    ELSE IF code \in {53, 54} THEN "CANCELLED"
    ELSE IF code = 56 THEN "FILLED"
    ELSE IF code = 57 THEN "REJECTED"
    ELSE "PENDING"

(* C12: the order-record translator gives every external status code the *)
(* canonical status of the fixed table, and PENDING to every code outside  *)
(* 48..57                                                                  *)
C12_StatusTable ==
    last.op = "_convert_xt_order" =>
        /\ last.ok
        /\ last.ret.status = CanonicalStatus(ext[1].value[1].order_status)
C12_Witness ==
    /\ last.op = "_convert_xt_order"
    /\ ext[1].value[1].order_status = 100
    /\ last.ret.status = "PENDING"

(* C13: is_connected never fails and answers whether the session id is in *)
(* the session store; no operation other than connect_account and          *)
(* disconnect_account changes which ids are in the store, so the answer    *)
(* for an id is the same before and after every other call                 *)
C13_Step ==
    /\ last'.op = "is_connected" =>
          /\ last'.ok
          /\ last'.ret = last'.known
          /\ ext' = <<>>
    /\ last'.op \notin {"connect_account", "disconnect_account"} =>
          DOMAIN _connected_accounts' = DOMAIN _connected_accounts
C13_IsConnectedStable == [][C13_Step]_vars
C13_Witness ==
    /\ last.op = "is_connected"
    /\ last.ret = FALSE
    /\ DOMAIN _connected_accounts # {}
    /\ _orders # <<>>

(* what a read returns when it does not use the external client's data *)
Fallback(op) ==
    CASE op = "get_positions" -> mock_positions
      [] op = "get_trades" -> mock_trades
      [] op = "get_asset_info" -> mock_asset
      [] op = "get_orders" -> OrderBookList(_orders)

(* C14: without the xtquant library no read on a connected session makes *)
(* a call on the external client, whatever the configured mode: positions, *)
(* trades and asset are the simulated data, orders is the order book       *)
C14_NoClientNoQuery ==
    (~XTQUANT_AVAILABLE /\ last.op \in DegradingReads /\ last.known) =>
        /\ ext = <<>>
        /\ last.ok
        /\ last.ret = Fallback(last.op)
C14_Witness ==
    /\ ~XTQUANT_AVAILABLE
    /\ settings.mode = "PROD"
    /\ last.op = "get_orders" /\ last.known
    /\ _orders # <<>>
    /\ last.ret = OrderBookList(_orders)

(* the attributes a translator reads, and the translation of a whole result *)
ReadAttrs(op) ==
    CASE op = "get_positions" -> PositionAttrs
      [] op = "get_trades" -> TradeAttrs
      [] op = "get_asset_info" -> AssetAttrs
      [] op = "get_orders" -> OrderAttrs
Translation(op, data) ==
    CASE op = "get_positions" -> [i \in 1..Len(data) |-> _convert_xt_position(data[i])]
      [] op = "get_trades" -> [i \in 1..Len(data) |-> _convert_xt_trade(data[i])]
      [] op = "get_asset_info" -> ConvertAsset(data[1])
      [] op = "get_orders" -> {_convert_xt_order(o) : o \in Range(data)}
(* the last read returned the translation of what the external query gave *)
Translated ==
    /\ ext # <<>>
    /\ ext[1].out = "data"
    /\ Convertible(ext[1].value, ReadAttrs(last.op))
    /\ last.ret = Translation(last.op, ext[1].value)
QueryGave(outs) == ext # <<>> /\ ext[1].out \in outs
(* get_positions and get_trades answer a null query result with an empty list *)
NullAsEmpty ==
    /\ last.op \in {"get_positions", "get_trades"}
    /\ QueryGave({"null"})
    /\ last.ret = <<>>

(* C15 as stated: a read on a connected session returns the translation of *)
(* a non-null query result or else the fallback (simulated data, or the     *)
(* order book for get_orders); a query that raises or returns null gives    *)
(* the fallback                                                             *)
C15_TranslationOrFallback ==
    (last.op \in DegradingReads /\ last.known) =>
        /\ last.ok
        /\ Translated \/ last.ret = Fallback(last.op)
        /\ QueryGave({"raise", "null"}) => last.ret = Fallback(last.op)

(* C15 amended: the result is the translation of a non-null query result, *)
(* the fallback, or, for get_positions and get_trades whose query returned  *)
(* null, the empty list; a query that raises gives the fallback, and one    *)
(* that returns null gives the fallback for get_orders and get_asset_info   *)
C15_TranslationFallbackOrEmpty ==
    (last.op \in DegradingReads /\ last.known) =>
        /\ last.ok
        /\ Translated \/ NullAsEmpty \/ last.ret = Fallback(last.op)
        /\ QueryGave({"raise"}) => last.ret = Fallback(last.op)
        /\ QueryGave({"null"}) =>
              IF last.op \in {"get_orders", "get_asset_info"}
              THEN last.ret = Fallback(last.op)
              ELSE last.ret = <<>>
C15_Witness ==
    /\ last.op = "get_trades" /\ last.known
    /\ QueryGave({"null"})
    /\ last.ret = <<>>

(* C16: with the xtquant library present, a read on a connected session *)
(* goes to the external client exactly when the mode at the time of the   *)
(* call is DEV or PROD (reads leave the configuration as it is, so that    *)
(* mode is the one in the state the call ends in)                          *)
C16_ReadsFollowMode ==
    (XTQUANT_AVAILABLE /\ last.op \in DegradingReads /\ last.known) =>
        (ext # <<>> <=> settings.mode \in {"DEV", "PROD"})

(* C17: while real trading is permitted, cancel_order for a stored order *)
(* calls xttrader.cancel_order_stock exactly once; if the call returns,     *)
(* cancel_order returns that value and the stored order becomes CANCELLED   *)
(* when the value is true and is unchanged when it is false; if the call    *)
(* raises, the order book is unchanged and the error is OrderFailed         *)
C17_Step ==
    (/\ last'.op = "cancel_order" /\ last'.known
     /\ PermitsRealTrading
     /\ last'.order_id \in DOMAIN _orders) =>
        /\ Len(ext') = 1
        /\ ext'[1].fn = "cancel_order_stock"
        /\ UNCHANGED _order_counter
        /\ IF ext'[1].out = "raise"
           THEN /\ ErrorKind(last'.err) = "OrderFailed"
                /\ _orders' = _orders
           ELSE /\ last'.ok
                /\ last'.ret = ext'[1].value
                /\ _orders' = IF ext'[1].value
                              THEN [_orders EXCEPT ![last'.order_id].status = "CANCELLED"]
                              ELSE _orders
C17_RealCancel == [][C17_Step]_vars
C17_Witness ==
    /\ last.op = "cancel_order" /\ last.known /\ last.ok
    /\ PermitsRealTrading
    /\ ext # <<>> /\ ext[1].fn = "cancel_order_stock"
    /\ last.ret = FALSE
    /\ last.order_id \in DOMAIN _orders
    /\ _orders[last.order_id].status = "SUBMITTED"

(* a thread whose submit_order returned from the mock path *)
ReturnedMock(t) == threads[t].pc = "returned_mock"

(* C18: two submit_order calls that ran concurrently on the mock path *)
(* returned different mock ids, and the order book holds each call's order  *)
(* under the id that call returned                                          *)
C18_ConcurrentMockIds ==
    \A t, u \in Threads :
        (t # u /\ ReturnedMock(t) /\ ReturnedMock(u)) =>
            /\ threads[t].ret.order_id # threads[u].ret.order_id
            /\ threads[t].ret.order_id \in DOMAIN _orders
            /\ threads[u].ret.order_id \in DOMAIN _orders
            /\ Cardinality(DOMAIN _orders) >= 2

(* C19: every successful submit_order, mock or real and whatever the *)
(* configuration was before, returns an id that is not yet in the order   *)
(* book, adds exactly one entry under that id and leaves every stored      *)
(* order as it was                                                         *)
C19_Step ==
    (last'.op = "submit_order" /\ last'.ok) =>
        /\ last'.ret.order_id \notin DOMAIN _orders
        /\ DOMAIN _orders' = DOMAIN _orders \cup {last'.ret.order_id}
        /\ _orders'[last'.ret.order_id] = last'.ret
        /\ \A k \in DOMAIN _orders : _orders'[k] = _orders[k]
C20_Step ==
    /\ \A k \in DOMAIN _orders' : _orders'[k].status \in {"SUBMITTED", "CANCELLED"}
    /\ \A k \in DOMAIN _orders :
          /\ k \in DOMAIN _orders'
          /\ _orders[k].status = "CANCELLED" => _orders'[k].status = "CANCELLED"
          /\ _orders'[k].status # _orders[k].status =>
                (_orders[k].status = "SUBMITTED" /\ _orders'[k].status = "CANCELLED")
C21_Step ==
    /\ DOMAIN _orders \subseteq DOMAIN _orders'
    /\ last'.op = "disconnect_account" => _orders' = _orders
    /\ (/\ last'.op = "get_orders" /\ last'.known
        /\ (ext' = <<>> \/ ext'[1].out \in {"raise", "null"})) =>
           last'.ret = OrderBookList(_orders)
    /\ (/\ last'.op = "cancel_order" /\ last'.known
        /\ last'.order_id \in DOMAIN _orders
        /\ \/ ~PermitsRealTrading
           \/ (ext' # <<>> /\ ext'[1].out = "return" /\ ext'[1].value)) =>
           /\ last'.ok /\ last'.ret = TRUE
           /\ _orders'[last'.order_id].status = "CANCELLED"
C21_OrderBookProcessWide == [][C21_Step]_vars
(* the clock still reads 0, so every stored order was submitted under the *)
(* one session that existed, and that session has just been disconnected  *)
C21_Witness ==
    /\ now = 0
    /\ last.op = "disconnect_account" /\ last.ret = TRUE
    /\ last.session_id = SessionId("U1", 0)
    /\ SessionId("U1", 0) \notin DOMAIN _connected_accounts
    /\ Cardinality(DOMAIN _orders) >= 2

====
